---- MODULE Spec2Model ----
(***************************************************************************)
(* Model of the Lithium-Validation scoring engine (OutputValidator), its   *)
(* wrapper (ValidationInterface) and the score-to-tier mapping.            *)
(*                                                                         *)
(* Numbers.  Python floats are modelled as exact decimal fixed point: the  *)
(* integer n stands for n / ONE.  Every literal of the code (0.1 .. 0.9)   *)
(* is a multiple of 1/ONE, so sums and products of the code's literals are *)
(* exact here; the binary rounding error of a float sum (about 1e-16) is   *)
(* not represented.                                                        *)
(*                                                                         *)
(* Text.  A text is a sequence of tokens; the string it stands for is the  *)
(* tokens joined by single spaces.  A token is a word, a fixed phrase, a   *)
(* punctuation mark or one bracketed / parenthesised span.  Each regular   *)
(* expression of the rule catalog is modelled by what it matches on such   *)
(* a string.                                                               *)
(*                                                                         *)
(* The timestamp field (datetime.now()) of a result is left out.           *)
(***************************************************************************)
EXTENDS Integers, Sequences, FiniteSets, TLC

VARIABLES
    dicts,           \* the heap of dict objects: reference (1..Len) -> dict
    engines,         \* the OutputValidator instances built so far, in order
    validator,       \* ValidationInterface.validator: an index into engines
    default_config,  \* ValidationInterface._default_config: a dict reference
    call,            \* the arguments of the validating call made last
    results,         \* what the last operation returned: a sequence of results
    first,           \* history: the result of the first validate call of the run
    merged,          \* history: defaults overridden by config0, o1, ..., on
    probe,           \* the score / tier pair of the tier mapping under test
    subresult,       \* what the detector called last returned
    threads,         \* the validate calls in progress, one per thread
    front            \* the last run of a front end (CLI, protocol adapter)

vars ==
    <<dicts, engines, validator, default_config, call, results, first, merged, probe,
      subresult, threads, front>>

(***************************************************************************)
(* Bounds of the model.                                                    *)
(***************************************************************************)
MaxTextLen == 2      \* tokens in a text given to the engine alone
MaxWarnings == 1     \* largest max_warnings option tried
MaxConfigure == 2    \* configure calls in one run of the wrapper
MaxBatch == 2        \* texts in one batch_validate call

(***************************************************************************)
(* Fixed-point numbers.                                                    *)
(***************************************************************************)
ONE == 10000

Min(a, b) == IF a < b THEN a ELSE b
Max(a, b) == IF a > b THEN a ELSE b

\* 0.1, 0.2, ... as the code writes them
Tenths(n) == n * (ONE \div 10)

\* a * b of two fixed-point numbers
Mul(a, b) == (a * b) \div ONE

\* max(0.0, min(1.0, score)); before it, the same with one bound forgotten
ClampNoUpper(score) == Max(0, score)
ClampNoLower(score) == Min(ONE, score)
Clamp(score) == Max(0, Min(ONE, score))

(***************************************************************************)
(* Configuration dicts.  A dict is a function whose domain is the set of   *)
(* keys present.                                                           *)
(***************************************************************************)
K_THRESHOLD == "confidence_threshold"
K_FACTUAL == "enable_factual_validation"
K_LOGICAL == "enable_logical_consistency"
K_SOURCE == "enable_source_attribution"
K_MAXWARN == "max_warnings"

Keys == {K_THRESHOLD, K_FACTUAL, K_LOGICAL, K_SOURCE, K_MAXWARN}

\* before the defaults, the same with max_warnings 8
DefaultConfigEight ==
    [k \in Keys |->
        CASE k = K_THRESHOLD -> Tenths(7)
          [] k = K_MAXWARN -> 8
          [] OTHER -> TRUE]

\* OutputValidator._default_config
DefaultConfig ==
    [k \in Keys |->
        CASE k = K_THRESHOLD -> Tenths(7)
          [] k = K_MAXWARN -> 10
          [] OTHER -> TRUE]

\* dict.get(key, default)
Get(d, k, default) == IF k \in DOMAIN d THEN d[k] ELSE default

\* dict.update(kwargs)
Update(d, kw) ==
    [k \in (DOMAIN d) \cup (DOMAIN kw) |-> IF k \in DOMAIN kw THEN kw[k] ELSE d[k]]

EmptyDict == [k \in {} |-> TRUE]

(***************************************************************************)
(* Tokens and the rule catalog.                                            *)
(***************************************************************************)
\* str.lower() / re.IGNORECASE on one token
Lower(t) ==
    CASE t = "According to" -> "according to"
      [] t = "Studies show" -> "studies show"
      [] t = "Never" -> "never"
      [] t = "However" -> "however"
      [] t = "Source:" -> "source:"
      [] OTHER -> t

\* OutputValidator._load_validation_rules: "factual_patterns"; the first
\* pattern, according to [^,]+, , is the phrase followed by a comma further on
P_ACCORDING == "according to [^,]+,"
factual_patterns ==
    <<P_ACCORDING, "studies show", "research indicates", "data suggests", "statistics show">>

\* "uncertainty_indicators"
uncertainty_indicators ==
    <<"might be", "could be", "possibly", "perhaps", "it seems", "appears to">>

\* "citation_patterns": \[[\d\w\s,]+\] , \([^)]*20\d{2}[^)]*\) and three phrases
P_BRACKET == "\\[[\\d\\w\\s,]+\\]"
P_YEAR == "\\([^)]*20\\d{2}[^)]*\\)"
\* before the list, the same without the phrase "according to"
citation_patterns_no_phrase == <<P_BRACKET, P_YEAR, "source:", "reference:">>
citation_patterns == <<P_BRACKET, P_YEAR, "source:", "reference:", "according to">>

\* the bracketed spans of the vocabulary, the ones \[[\d\w\s,]+\] accepts (a
\* non-empty content of word characters, blanks and commas), and the
\* parenthesised spans holding a year 20dd
BracketSpans == {"[1]", "[]", "[?]", "[12]", "[smith 2020]"}
WordBrackets == {"[1]", "[12]", "[smith 2020]"}
YearParens == {"(2020)", "(smith 2021)"}

\* len() of a bracketed span, in characters
CharLen(t) ==
    CASE t = "[]" -> 2
      [] t = "[1]" -> 3
      [] t = "[?]" -> 3
      [] t = "[12]" -> 4
      [] t = "[smith 2020]" -> 12
      [] OTHER -> 0

\* the tokens holding one of . ! ? , the delimiters of re.split(r'[.!?]+')
Terminals == {".", "!", "?", "[?]"}

\* every token of the model
Vocabulary ==
    {"according to", ",", "studies show", "research indicates", "data suggests",
     "statistics show", "might be", "could be", "possibly", "perhaps", "it seems",
     "appears to", "always", "never", "all", "none", "every", "no", "completely",
     "partially", "however", "therefore", "moreover", "furthermore", "additionally",
     ".", "!", "?", "source:", "reference:", "(2020)", "(smith 2021)", "(1999)",
     "sky", "cannot", "nevertheless",
     "According to", "Studies show", "Never", "However", "Source:"}
        \cup BracketSpans

\* the first comma after position i
RECURSIVE NextComma(_, _)
NextComma(text, i) ==
    IF i > Len(text) THEN 0
    ELSE IF text[i] = "," THEN i
    ELSE NextComma(text, i + 1)

\* a match of according to [^,]+, starts at i: the phrase, one blank, at
\* least one character that is no comma, then a comma
AccordingAt(text, i) ==
    /\ Lower(text[i]) = "according to"
    /\ i + 1 <= Len(text)
    /\ text[i + 1] # ","
    /\ NextComma(text, i + 2) # 0

\* re.findall(pattern, output, re.IGNORECASE): the matched strings, each the
\* sequence of the tokens it spans, left to right without overlap
RECURSIVE AccordingFrom(_, _)
AccordingFrom(text, i) ==
    IF i > Len(text) THEN <<>>
    ELSE IF AccordingAt(text, i)
         THEN <<SubSeq(text, i, NextComma(text, i + 2))>>
                  \o AccordingFrom(text, NextComma(text, i + 2) + 1)
         ELSE AccordingFrom(text, i + 1)

FindAll(pattern, text) ==
    IF pattern = P_ACCORDING THEN AccordingFrom(text, 1)
    ELSE LET hits == SelectSeq(text, LAMBDA t : Lower(t) = pattern)
         IN  [n \in 1..Len(hits) |-> <<hits[n]>>]

\* re.search(pattern, output, re.IGNORECASE) of a citation pattern
Search(pattern, text) ==
    \E i \in 1..Len(text) :
        CASE pattern = P_BRACKET -> text[i] \in WordBrackets
          [] pattern = P_YEAR -> text[i] \in YearParens
          [] OTHER -> Lower(text[i]) = pattern

\* re.search(rf"\b{word}\b", output, re.IGNORECASE)
SearchWord(word, text) == \E i \in 1..Len(text) : Lower(text[i]) = word

(***************************************************************************)
(* The three detectors.  Each returns [score, warnings]; a warning is a    *)
(* tuple standing for the formatted string: its kind and what it quotes.   *)
(***************************************************************************)
\* the loop over factual_patterns of _validate_factual_claims, from pattern n on
RECURSIVE FactualLoop(_, _, _)
FactualLoop(output, n, acc) ==
    IF n > Len(factual_patterns) THEN acc
    ELSE LET matches == FindAll(factual_patterns[n], output)
         IN  FactualLoop(output, n + 1,
                 IF matches # <<>>
                 THEN [score |-> acc.score - Tenths(2),
                       warnings |-> Append(acc.warnings, <<"Unsupported factual claim detected", matches[1]>>)]
                 ELSE acc)

\* before the loop, the same counting each pattern once however often it matches
RECURSIVE UncertaintyPatterns(_, _)
UncertaintyPatterns(output, n) ==
    IF n > Len(uncertainty_indicators) THEN 0
    ELSE (IF FindAll(uncertainty_indicators[n], output) # <<>> THEN 1 ELSE 0)
             + UncertaintyPatterns(output, n + 1)

\* the loop over uncertainty_indicators: the matches of all patterns, summed
RECURSIVE UncertaintyCount(_, _)
UncertaintyCount(output, n) ==
    IF n > Len(uncertainty_indicators) THEN 0
    ELSE Len(FindAll(uncertainty_indicators[n], output)) + UncertaintyCount(output, n + 1)

validate_factual_claims(output) ==
    LET loop == FactualLoop(output, 1, [score |-> ONE, warnings |-> <<>>])
        uncertainty_count == UncertaintyCount(output, 1)
        score == IF uncertainty_count > 0
                 THEN loop.score + Min(uncertainty_count * Tenths(1), Tenths(3))
                 ELSE loop.score
    IN  [score |-> Clamp(score), warnings |-> loop.warnings]

contradictions ==
    <<<<"always", "never">>, <<"all", "none">>, <<"every", "no">>, <<"completely", "partially">>>>

transition_words == {"however", "therefore", "moreover", "furthermore", "additionally"}

\* the loop over contradictions of _validate_logical_consistency
RECURSIVE LogicalLoop(_, _, _)
LogicalLoop(output, n, acc) ==
    IF n > Len(contradictions) THEN acc
    ELSE LET pos == contradictions[n][1]
             neg == contradictions[n][2]
         IN  LogicalLoop(output, n + 1,
                 IF SearchWord(pos, output) /\ SearchWord(neg, output)
                 THEN [score |-> acc.score - Tenths(3),
                       warnings |-> Append(acc.warnings, <<"Potential contradiction detected", pos, neg>>)]
                 ELSE acc)

\* before the test, one that takes any text for several sentences
AnySentences(output) == Len(output) >= 0

\* len(re.split(r'[.!?]+', output)) > 1: the text holds a delimiter
SeveralSentences(output) == \E i \in 1..Len(output) : output[i] \in Terminals

\* any(word in output.lower() for word in transition_words)
has_transitions(output) == \E i \in 1..Len(output) : Lower(output[i]) \in transition_words

validate_logical_consistency(output) ==
    LET loop == LogicalLoop(output, 1, [score |-> ONE, warnings |-> <<>>])
        score == IF SeveralSentences(output) /\ has_transitions(output)
                 THEN loop.score + Tenths(1)
                 ELSE loop.score
    IN  [score |-> Clamp(score), warnings |-> loop.warnings]

\* any(re.search(pattern, output, re.IGNORECASE) for pattern in citation_patterns)
has_citations(output) ==
    \E n \in 1..Len(citation_patterns) : Search(citation_patterns[n], output)

\* before the scan, one that finds only the brackets the citation pattern accepts
word_citations(output) == SelectSeq(output, LAMBDA t : t \in WordBrackets)

\* re.findall(r"\[[^\]]*\]", output)
incomplete_citations(output) == SelectSeq(output, LAMBDA t : t \in BracketSpans)

\* the loop over the bracketed spans of _validate_source_attribution
RECURSIVE CitationLoop(_, _, _)
CitationLoop(spans, n, acc) ==
    IF n > Len(spans) THEN acc
    ELSE CitationLoop(spans, n + 1,
             IF CharLen(spans[n]) < 5
             THEN [score |-> acc.score - Tenths(1),
                   warnings |-> Append(acc.warnings, <<"Incomplete citation", spans[n]>>)]
             ELSE acc)

NO_CITATIONS == <<"No citations or source attributions found">>

validate_source_attribution(output) ==
    LET start == [score |-> ONE, warnings |-> <<>>]
        acc == IF ~has_citations(output)
               THEN [score |-> start.score - Tenths(4), warnings |-> <<NO_CITATIONS>>]
               ELSE CitationLoop(incomplete_citations(output), 1, start)
    IN  [score |-> Clamp(acc.score), warnings |-> acc.warnings]

(***************************************************************************)
(* The aggregator.                                                         *)
(***************************************************************************)
\* OutputValidator._determine_confidence; before it, the same with the bounds
\* of the bands exclusive
determine_confidence_strict(score) ==
    IF score > Tenths(9) THEN "high"
    ELSE IF score > Tenths(7) THEN "medium"
    ELSE IF score > Tenths(5) THEN "low"
    ELSE "insufficient"

determine_confidence(score) ==
    IF score >= Tenths(9) THEN "high"
    ELSE IF score >= Tenths(7) THEN "medium"
    ELSE IF score >= Tenths(5) THEN "low"
    ELSE "insufficient"

\* the fixed weights of validate; W_AS_FACTUAL is the source weight written
\* 0.4 like the factual one
W_FACTUAL == Tenths(4)
W_LOGICAL == Tenths(3)
W_AS_FACTUAL == Tenths(4)
W_SOURCE == Tenths(3)

\* before the block, the same putting the detector's warnings in front of the list
BlockPrepend(acc, enabled, det, weight, key) ==
    IF enabled
    THEN [score |-> acc.score + Mul(det.score, weight),
          warnings |-> det.warnings \o acc.warnings,
          details |-> acc.details @@ (key :> [score |-> det.score, warnings |-> Len(det.warnings)])]
    ELSE acc

\* one "if self.config.get(enable...)" block of validate
Block(acc, enabled, det, weight, key) ==
    IF enabled
    THEN [score |-> acc.score + Mul(det.score, weight),
          warnings |-> acc.warnings \o det.warnings,
          details |-> acc.details @@ (key :> [score |-> det.score, warnings |-> Len(det.warnings)])]
    ELSE acc

\* "Limit warnings": warnings[:max_warnings], then the summary entry, whose
\* number is computed from the list already cut; before it, the same keeping
\* the last max_warnings entries instead of the first
LimitWarningsKeepLast(warnings, max_warnings) ==
    IF Len(warnings) > max_warnings
    THEN LET cut == SubSeq(warnings, Len(warnings) - max_warnings + 1, Len(warnings))
         IN  Append(cut, <<"... and more warnings", Len(cut) - max_warnings>>)
    ELSE warnings

LimitWarnings(warnings, max_warnings) ==
    IF Len(warnings) > max_warnings
    THEN LET cut == SubSeq(warnings, 1, max_warnings)
         IN  Append(cut, <<"... and more warnings", Len(cut) - max_warnings>>)
    ELSE warnings

\* is_valid = score >= self.config.get("confidence_threshold", 0.7); before
\* it, the same with a strict comparison
IsValidStrict(score, config) == score > Get(config, K_THRESHOLD, Tenths(7))
IsValid(score, config) == score >= Get(config, K_THRESHOLD, Tenths(7))

\* the body of validate, given which of the three blocks run
Aggregate(config, output, validation_type, factual, logical, source) ==
    LET a0 == [score |-> 0, warnings |-> <<>>, details |-> EmptyDict]
        a1 == Block(a0, factual,
                    validate_factual_claims(output), W_FACTUAL, "factual_validation")
        a2 == Block(a1, logical,
                    validate_logical_consistency(output), W_LOGICAL, "logical_consistency")
        a3 == Block(a2, source,
                    validate_source_attribution(output), W_SOURCE, "source_attribution")
    IN  [is_valid |-> IsValid(a3.score, config),
         confidence |-> determine_confidence(a3.score),
         score |-> a3.score,
         details |-> a3.details,
         warnings |-> LimitWarnings(a3.warnings, Get(config, K_MAXWARN, 10)),
         validation_type |-> validation_type]

\* OutputValidator.validate, on the dict self.config refers to: the flags of
\* the config alone decide which blocks run; before it, a validate in which
\* the modes "factual", "logical" and "sources" run the matching block only
validate_by_mode(config, output, context, validation_type) ==
    Aggregate(config, output, validation_type,
              Get(config, K_FACTUAL, TRUE) /\ validation_type \notin {"logical", "sources"},
              Get(config, K_LOGICAL, TRUE) /\ validation_type \notin {"factual", "sources"},
              Get(config, K_SOURCE, TRUE) /\ validation_type \notin {"factual", "logical"})

validate(config, output, context, validation_type) ==
    Aggregate(config, output, validation_type,
              Get(config, K_FACTUAL, TRUE),
              Get(config, K_LOGICAL, TRUE),
              Get(config, K_SOURCE, TRUE))

\* a result without the mode it echoes
Core(r) ==
    [is_valid |-> r.is_valid, confidence |-> r.confidence, score |-> r.score,
     details |-> r.details, warnings |-> r.warnings]

(***************************************************************************)
(* Objects.  Python passes dicts by reference, so the dicts live in a heap *)
(* and an engine holds a reference; reference 0 is None.                   *)
(***************************************************************************)
\* "config or self._default_config()": None and the empty dict are falsy
Falsy(heap, ref) == ref = 0 \/ DOMAIN heap[ref] = {}

\* OutputValidator.__init__(config): the heap after it, and the new instance;
\* made records the option values at construction
HeapAfterInit(heap, ref) == IF Falsy(heap, ref) THEN Append(heap, DefaultConfig) ELSE heap

NewEngine(heap, ref) ==
    LET config == IF Falsy(heap, ref) THEN Len(heap) + 1 ELSE ref
    IN  [config |-> config, made |-> HeapAfterInit(heap, ref)[config]]

\* the dict an engine reads its options from
ConfigOf(e) == dicts[e.config]

\* the option values an engine works with: each key's value or its default
Effective(d) == [k \in Keys |-> Get(d, k, DefaultConfig[k])]

(***************************************************************************)
(* Inputs.                                                                 *)
(***************************************************************************)
Modes == {"quick", "comprehensive", "factual", "logical", "sources"}
Contexts == {"None", "some context"}
Thresholds == {Tenths(5), Tenths(9)}

\* every dict that gives each option a value
FullConfigs ==
    {[k \in Keys |->
        CASE k = K_THRESHOLD -> t
          [] k = K_FACTUAL -> f
          [] k = K_LOGICAL -> l
          [] k = K_SOURCE -> s
          [] OTHER -> m] :
        t \in Thresholds, f \in BOOLEAN, l \in BOOLEAN, s \in BOOLEAN, m \in 0..MaxWarnings}

\* a dict cut down to some of its keys
Restrict(d, ks) == [k \in ks |-> d[k]]

\* the dicts a caller passes: full ones, and ones that set a single option
OneKeyConfigs == {Restrict(d, {k}) : d \in FullConfigs, k \in Keys}
Configs == FullConfigs \cup OneKeyConfigs \cup {EmptyDict}

\* an optional config argument: <<>> is None, <<d>> the dict d; as the heap
\* of the caller it holds the dict at reference 1
OptionalConfigs == {<<>>} \cup {<<d>> : d \in Configs}

\* the sequences of at most n tokens over a set of tokens
SeqsUpTo(tokens, n) == UNION {[1..m -> tokens] : m \in 0..n}

\* the subsequences of a text
RECURSIVE Pick(_, _, _)
Pick(base, keep, i) ==
    IF i > Len(base) THEN <<>>
    ELSE (IF i \in keep THEN <<base[i]>> ELSE <<>>) \o Pick(base, keep, i + 1)

Subsequences(base) == {Pick(base, keep, 1) : keep \in SUBSET (1..Len(base))}

\* the tokens of the short texts tried exhaustively
EngineTokens ==
    {"according to", ",", "studies show", "perhaps", "however", ".", "[1]", "sky"}

\* longer texts, tried with each of their subsequences: one of mixed signals,
\* one with every contradiction word, one with a run of short citations
MixedText == <<"According to", "sky", ",", "perhaps", ".", "However", "(2020)", "[]">>
AllContradictions ==
    <<"always", "never", "all", "none", "every", "no", "completely", "partially">>
ManyCitations == [i \in 1..12 |-> "[1]"]

EngineTexts ==
    SeqsUpTo(EngineTokens, MaxTextLen)
        \cup Subsequences(MixedText)
        \cup Subsequences(AllContradictions)
        \cup Subsequences(ManyCitations)

\* the texts of the runs that call validate repeatedly
ModeTexts == Subsequences(<<"studies show", "always", "never", "[1]">>)

(***************************************************************************)
(* The engine alone: OutputValidator(config), then validate on one text.   *)
(***************************************************************************)
NoProbe == [lo |-> 0, hi |-> 0, tier_lo |-> "none", tier_hi |-> "none"]

\* no detector called on its own, no thread started, no front end run
NoFront == [op |-> "none"]
Idle ==
    /\ subresult = <<>>
    /\ threads = <<>>
    /\ front = NoFront

\* OutputValidator(config), with the arguments of the call to come
Construct(config, text, context, validation_type) ==
    /\ dicts = HeapAfterInit(config, Len(config))
    /\ engines = <<NewEngine(config, Len(config))>>
    /\ validator = 1
    /\ default_config = 0
    /\ call = [op |-> "OutputValidator", outputs |-> <<text>>, context |-> context,
               validation_type |-> validation_type]
    /\ results = <<>>
    /\ first = <<>>
    /\ merged = EmptyDict
    /\ probe = NoProbe
    /\ Idle

EngineInit ==
    \E config \in OptionalConfigs, text \in EngineTexts,
       validation_type \in {"comprehensive", "quick"} :
        Construct(config, text, "None", validation_type)

\* OutputValidator.validate(output, context, validation_type)
EngineValidate ==
    LET r == validate(ConfigOf(engines[validator]), call.outputs[1], call.context,
                      call.validation_type)
    IN  /\ call' = [call EXCEPT !.op = "validate"]
        /\ results' = <<r>>
        /\ UNCHANGED <<dicts, engines, validator, default_config, first, merged, probe, subresult, threads, front>>

EngineNext == EngineValidate

SpecEngine == EngineInit /\ [][EngineNext]_vars

(***************************************************************************)
(* The engine called again and again on one text, in every mode and with   *)
(* and without a context.                                                  *)
(***************************************************************************)
ModeInit ==
    \E config \in OptionalConfigs, text \in ModeTexts :
        Construct(config, text, "None", "none")

ModeValidate ==
    \E context \in Contexts, validation_type \in Modes :
        LET r == validate(ConfigOf(engines[validator]), call.outputs[1], context,
                          validation_type)
        IN  /\ call' = [call EXCEPT !.op = "validate", !.context = context,
                                    !.validation_type = validation_type]
            /\ results' = <<r>>
            /\ first' = IF first = <<>>
                        THEN <<[validation_type |-> validation_type, core |-> Core(r)]>>
                        ELSE first
            /\ UNCHANGED <<dicts, engines, validator, default_config, merged, probe, subresult, threads, front>>

ModeNext == ModeValidate

SpecMode == ModeInit /\ [][ModeNext]_vars

(***************************************************************************)
(* The wrapper: ValidationInterface(config), then any calls of its         *)
(* operations.                                                             *)
(***************************************************************************)
\* the keyword arguments of configure, and the dicts given at construction
Strict == [k \in Keys |-> CASE k = K_THRESHOLD -> Tenths(9) [] k = K_MAXWARN -> 0 [] OTHER -> FALSE]
Options ==
    {EmptyDict, Restrict(Strict, {K_THRESHOLD}), Restrict(Strict, {K_SOURCE}),
     Restrict(Strict, {K_MAXWARN})}

InterfaceConfigs == {<<>>} \cup {<<d>> : d \in Options \cup {Strict}}

InterfaceTexts == {<<"studies show">>, <<"[1]">>}

\* ValidationInterface.__init__(config)
InterfaceInit ==
    \E config \in InterfaceConfigs :
        LET heap == HeapAfterInit(config, Len(config))
        IN  /\ dicts = Append(heap, DefaultConfig)
            /\ engines = <<NewEngine(config, Len(config))>>
            /\ validator = 1
            /\ default_config = Len(heap) + 1
            /\ call = [op |-> "ValidationInterface", outputs |-> <<>>, context |-> "None",
                       validation_type |-> "none"]
            /\ results = <<>>
            /\ first = <<>>
            /\ merged = Update(DefaultConfig, IF config = <<>> THEN EmptyDict ELSE config[1])
            /\ probe = NoProbe
            /\ Idle

\* self.validator.validate(output, context, validation_type)
ValidatorValidate(output, context, validation_type) ==
    validate(ConfigOf(engines[validator]), output, context, validation_type)

\* ValidationInterface.validate_output
ValidateOutput ==
    \E output \in InterfaceTexts, context \in Contexts, validation_type \in Modes :
        /\ call' = [op |-> "validate_output", outputs |-> <<output>>, context |-> "None",
                    validation_type |-> validation_type]
        /\ results' = <<ValidatorValidate(output, context, validation_type)>>
        /\ UNCHANGED <<dicts, engines, validator, default_config, first, merged, probe, subresult, threads, front>>

\* ValidationInterface.quick_check: returns results[1].is_valid
QuickCheck ==
    \E output \in InterfaceTexts :
        /\ call' = [op |-> "quick_check", outputs |-> <<output>>, context |-> "None",
                    validation_type |-> "quick"]
        /\ results' = <<ValidatorValidate(output, "None", "quick")>>
        /\ UNCHANGED <<dicts, engines, validator, default_config, first, merged, probe, subresult, threads, front>>

\* ValidationInterface.get_confidence_score: returns results[1].score
GetConfidenceScore ==
    \E output \in InterfaceTexts :
        /\ call' = [op |-> "get_confidence_score", outputs |-> <<output>>, context |-> "None",
                    validation_type |-> "quick"]
        /\ results' = <<ValidatorValidate(output, "None", "quick")>>
        /\ UNCHANGED <<dicts, engines, validator, default_config, first, merged, probe, subresult, threads, front>>

\* before the loop, the same with one warnings list carried from item to item
RECURSIVE BatchLoopShared(_, _, _, _)
BatchLoopShared(outputs, validation_type, n, acc) ==
    IF n > Len(outputs) THEN acc
    ELSE LET r == ValidatorValidate(outputs[n], "None", validation_type)
             carried == IF acc = <<>> THEN <<>> ELSE acc[Len(acc)].warnings
         IN  BatchLoopShared(outputs, validation_type, n + 1,
                             Append(acc, [r EXCEPT !.warnings = carried \o @]))

\* the loop of batch_validate, from output n on
RECURSIVE BatchLoop(_, _, _, _)
BatchLoop(outputs, validation_type, n, acc) ==
    IF n > Len(outputs) THEN acc
    ELSE BatchLoop(outputs, validation_type, n + 1,
                   Append(acc, ValidatorValidate(outputs[n], "None", validation_type)))

\* ValidationInterface.batch_validate
BatchValidate ==
    \E outputs \in SeqsUpTo(InterfaceTexts, MaxBatch), validation_type \in Modes :
        /\ call' = [op |-> "batch_validate", outputs |-> outputs, context |-> "None",
                    validation_type |-> validation_type]
        /\ results' = BatchLoop(outputs, validation_type, 1, <<>>)
        /\ UNCHANGED <<dicts, engines, validator, default_config, first, merged, probe, subresult, threads, front>>

\* ValidationInterface.configure(**kwargs): update _default_config in place,
\* then build an engine on that very dict
Configure ==
    \E kwargs \in Options :
        LET updated == [dicts EXCEPT ![default_config] = Update(@, kwargs)]
        IN  /\ Len(engines) <= MaxConfigure
            /\ dicts' = HeapAfterInit(updated, default_config)
            /\ engines' = Append(engines, NewEngine(updated, default_config))
            /\ validator' = Len(engines) + 1
            /\ merged' = Update(merged, kwargs)
            /\ UNCHANGED <<default_config, call, results, first, probe, subresult, threads, front>>

Next ==
    \/ ValidateOutput
    \/ QuickCheck
    \/ GetConfidenceScore
    \/ BatchValidate
    \/ Configure

Spec == InterfaceInit /\ [][Next]_vars

(***************************************************************************)
(* The wrapper called in batches only.                                     *)
(***************************************************************************)
SpecBatch == InterfaceInit /\ [][BatchValidate]_vars

(***************************************************************************)
(* The tier mapping alone, on two scores at a time.                        *)
(***************************************************************************)
\* hundredths from -0.1 to 1.1, and the neighbours of the three thresholds
ProbeScores ==
    {n * (ONE \div 100) : n \in -10..110}
        \cup {Tenths(b) + d : b \in {5, 7, 9}, d \in {-1, 1}}

TierInit ==
    \E lo \in ProbeScores, hi \in ProbeScores :
        /\ lo <= hi
        /\ probe = [lo |-> lo, hi |-> hi, tier_lo |-> "none", tier_hi |-> "none"]
        /\ dicts = <<>>
        /\ engines = <<>>
        /\ validator = 0
        /\ default_config = 0
        /\ call = [op |-> "none", outputs |-> <<>>, context |-> "None", validation_type |-> "none"]
        /\ results = <<>>
        /\ first = <<>>
        /\ merged = EmptyDict
        /\ Idle

\* self._determine_confidence(score), on both scores
Classify ==
    /\ probe' = [probe EXCEPT !.tier_lo = determine_confidence(probe.lo),
                              !.tier_hi = determine_confidence(probe.hi)]
    /\ UNCHANGED <<dicts, engines, validator, default_config, call, results, first, merged, subresult, threads, front>>

TierNext == Classify

SpecTier == TierInit /\ [][TierNext]_vars

(***************************************************************************)
(* The engine on texts built around the rule catalog: words that match no  *)
(* rule, and the phrase "according to" with and without its comma.         *)
(***************************************************************************)
\* a text no rule matches in any of its subsequences, and one that holds the
\* phrase twice, a contradiction pair and an empty bracket
PlainText ==
    <<"all", "sky", "cannot", ".", "perhaps", "however", "[?]", "(1999)", "always",
      "nevertheless">>
PhraseText ==
    <<"According to", "sky", ",", "always", "never", "[]", "perhaps", "according to", ",">>

RuleTexts == Subsequences(PlainText) \cup Subsequences(PhraseText)

\* no config, the empty dict, and dicts that set one option
RuleConfigs ==
    {<<>>, <<EmptyDict>>, <<Restrict(Strict, {K_MAXWARN})>>, <<Restrict(Strict, {K_FACTUAL})>>}

RulesInit ==
    \E config \in RuleConfigs, text \in RuleTexts, validation_type \in {"comprehensive", "quick"} :
        Construct(config, text, "None", validation_type)

SpecRules == RulesInit /\ [][EngineValidate]_vars

(***************************************************************************)
(* The command-line front end: main() of cli/validate.py, run once on the  *)
(* parsed arguments.  An optional argument is <<>> when absent (None) and  *)
(* <<v>> when given.                                                       *)
(***************************************************************************)
\* the whitespace str.strip() removes, as a token
Whitespace == {"\n"}

RECURSIVE LStrip(_)
LStrip(text) ==
    IF text # <<>> /\ Head(text) \in Whitespace THEN LStrip(Tail(text)) ELSE text

RECURSIVE RStrip(_)
RStrip(text) ==
    IF text # <<>> /\ text[Len(text)] \in Whitespace
    THEN RStrip(SubSeq(text, 1, Len(text) - 1))
    ELSE text

\* f.read().strip()
Strip(text) == RStrip(LStrip(text))

\* the files --file may name: none at that path, one open() cannot read, and
\* readable ones with their content
CliFiles ==
    {[kind |-> "missing", content |-> <<>>], [kind |-> "unreadable", content |-> <<>>]}
        \cup {[kind |-> "readable", content |-> c] :
                 c \in {<<>>, <<"\n">>, <<"\n", "studies show", "\n">>, AllContradictions}}

\* the literal texts: the empty string, a valid text, two invalid at 0.9, one
\* invalid at 0.7
CliTexts == {<<>>, <<"sky">>, <<"studies show">>, AllContradictions}

CliThresholds == {Tenths(7), Tenths(9)}

\* the namespaces parse_args returns: exactly one of text and --file
CliArgs ==
    {[text |-> s[1], file |-> s[2], type |-> ty, context |-> c, json |-> j, quiet |-> q,
      threshold |-> th] :
        s \in {<<(<<t>>), (<<>>)>> : t \in CliTexts} \cup {<<(<<>>), (<<f>>)>> : f \in CliFiles},
        ty \in Modes, c \in Contexts, j \in BOOLEAN, q \in BOOLEAN, th \in CliThresholds}

\* str.title() of a mode, str.upper() of a tier
Title(validation_type) ==
    CASE validation_type = "quick" -> "Quick"
      [] validation_type = "comprehensive" -> "Comprehensive"
      [] validation_type = "factual" -> "Factual"
      [] validation_type = "logical" -> "Logical"
      [] validation_type = "sources" -> "Sources"

Upper(tier) ==
    CASE tier = "high" -> "HIGH"
      [] tier = "medium" -> "MEDIUM"
      [] tier = "low" -> "LOW"
      [] tier = "insufficient" -> "INSUFFICIENT"

\* f"{score:.2f}": the score in hundredths, rounded half up
TwoDecimals(score) == (score + (ONE \div 200)) \div (ONE \div 100)

\* ValidationResult.to_dict, without the timestamp
to_dict(result) == result

\* print_validation_result: what the report shows
print_validation_result(result, validation_type) ==
    [type |-> Title(validation_type),
     valid |-> IF result.is_valid THEN "Yes" ELSE "No",
     confidence |-> Upper(result.confidence),
     score |-> TwoDecimals(result.score),
     details |-> [k \in DOMAIN result.details |-> TwoDecimals(result.details[k].score)],
     warnings |-> result.warnings,
     recommendations |-> result.confidence]

CliInit ==
    \E args \in CliArgs :
        /\ dicts = <<>>
        /\ engines = <<>>
        /\ validator = 0
        /\ default_config = 0
        /\ call = [op |-> "none", outputs |-> <<>>, context |-> "None", validation_type |-> "none"]
        /\ results = <<>>
        /\ first = <<>>
        /\ merged = EmptyDict
        /\ probe = NoProbe
        /\ subresult = <<>>
        /\ threads = <<>>
        /\ front = [op |-> "cli", pc |-> "start", args |-> args, exit |-> 0, stdout |-> <<>>,
                    stderr |-> <<>>, validated |-> <<>>]

\* sys.exit(code) before any engine exists
CliFail(stderr) ==
    /\ front' = [front EXCEPT !.pc = "exited", !.exit = 1, !.stderr = stderr]
    /\ UNCHANGED <<dicts, engines, validator, default_config, call, results>>

\* lines 71-86: the wrapper is built on {"confidence_threshold": threshold},
\* the text validated and the result printed; only --quiet exits with a code
\* of its own, the other two modes return from main, which is exit code 0.
\* (validate raises on no text, so the except branch of line 88 is not taken.)
CliValidate(text) ==
    LET args == front.args
        config == <<(K_THRESHOLD :> args.threshold)>>
        heap == Append(HeapAfterInit(config, 1), DefaultConfig)
        result == validate(heap[1], text, args.context, args.type)
    IN  /\ dicts' = heap
        /\ engines' = <<NewEngine(config, 1)>>
        /\ validator' = 1
        /\ default_config' = Len(heap)
        /\ call' = [op |-> "validate_output", outputs |-> <<text>>, context |-> args.context,
                    validation_type |-> args.type]
        /\ results' = <<result>>
        /\ front' =
              [front EXCEPT
                  !.pc = "exited",
                  !.validated = <<text>>,
                  !.exit = IF args.quiet THEN (IF result.is_valid THEN 0 ELSE 1) ELSE 0,
                  !.stdout =
                      IF args.quiet THEN <<IF result.is_valid THEN "true" ELSE "false">>
                      ELSE IF args.json THEN <<"json", to_dict(result)>>
                      ELSE <<"report", print_validation_result(result, args.type)>>]

\* main(), after parse_args
Main ==
    /\ front.op = "cli"
    /\ front.pc = "start"
    /\ LET args == front.args
           from_file == args.file # <<>>
           text == IF from_file THEN Strip(args.file[1].content) ELSE args.text[1]
       IN  IF from_file /\ args.file[1].kind = "missing"
           THEN CliFail(<<"Error: File not found">>)
           ELSE IF from_file /\ args.file[1].kind = "unreadable"
           THEN CliFail(<<"Error reading file">>)
           ELSE IF text = <<>>
           THEN CliFail(<<"Error: No text provided for validation">>)
           ELSE CliValidate(text)
    /\ UNCHANGED <<first, merged, probe, subresult, threads>>

CliNext == Main

SpecCli == CliInit /\ [][CliNext]_vars

(***************************************************************************)
(* The protocol adapter: LithiumMCPServer and its four tool handlers.  The *)
(* arguments of a tool call are a dict; a response is the CallToolResult:  *)
(* its isError flag and what its text shows.                               *)
(***************************************************************************)
\* the texts a host sends, the empty string among them
AdapterTexts == {<<>>, <<"studies show">>, <<"[1]">>}

\* the dicts with some of the keys "output", "context", "validation_type"
OutputArguments ==
    {Restrict(d, ks) :
        d \in {("output" :> o) @@ ("context" :> "some context") @@ ("validation_type" :> ty) :
                  o \in AdapterTexts, ty \in Modes},
        ks \in SUBSET {"output", "context", "validation_type"}}

\* the dicts with some of the keys "outputs", "validation_type"
BatchArguments ==
    {Restrict(d, ks) :
        d \in {("outputs" :> os) @@ ("validation_type" :> ty) :
                  os \in SeqsUpTo(AdapterTexts, MaxBatch), ty \in Modes},
        ks \in SUBSET {"outputs", "validation_type"}}

AdapterTools == {"validate_output", "quick_check", "get_confidence_score", "batch_validate"}

\* before the server's mapping, the same with the bounds of the bands exclusive
server_get_confidence_level_strict(score) ==
    IF score > Tenths(9) THEN "HIGH"
    ELSE IF score > Tenths(7) THEN "MEDIUM"
    ELSE IF score > Tenths(5) THEN "LOW"
    ELSE "INSUFFICIENT"

\* LithiumMCPServer._get_confidence_level
server_get_confidence_level(score) ==
    IF score >= Tenths(9) THEN "HIGH"
    ELSE IF score >= Tenths(7) THEN "MEDIUM"
    ELSE IF score >= Tenths(5) THEN "LOW"
    ELSE "INSUFFICIENT"

\* LithiumMCPServer._format_validation_result: what the text shows
format_validation_result(result) ==
    [valid |-> IF result.is_valid THEN "Yes" ELSE "No",
     confidence |-> Upper(result.confidence),
     score |-> TwoDecimals(result.score),
     details |-> [k \in DOMAIN result.details |-> TwoDecimals(result.details[k].score)],
     warnings |-> result.warnings]

\* the lines of _handle_batch_validate for one result
format_batch_item(result) ==
    [valid |-> IF result.is_valid THEN "Yes" ELSE "No",
     confidence |-> Upper(result.confidence),
     score |-> TwoDecimals(result.score),
     warnings |-> Len(result.warnings)]

\* LithiumMCPServer.__init__(config): the wrapper, and no call handled yet
AdapterInit ==
    \E config \in {<<>>, <<Restrict(Strict, {K_THRESHOLD})>>} :
        LET heap == HeapAfterInit(config, Len(config))
        IN  /\ dicts = Append(heap, DefaultConfig)
            /\ engines = <<NewEngine(config, Len(config))>>
            /\ validator = 1
            /\ default_config = Len(heap) + 1
            /\ call = [op |-> "ValidationInterface", outputs |-> <<>>, context |-> "None",
                       validation_type |-> "none"]
            /\ results = <<>>
            /\ first = <<>>
            /\ merged = EmptyDict
            /\ probe = NoProbe
            /\ subresult = <<>>
            /\ threads = <<>>
            /\ front = [op |-> "LithiumMCPServer", arguments |-> EmptyDict, isError |-> FALSE,
                        content |-> <<>>, validated |-> <<>>]

\* a CallToolResult with isError=True, returned before the wrapper is called:
\* this operation made no validating call and got no result
AdapterError(name, arguments, text) ==
    /\ call' = [op |-> name, outputs |-> <<>>, context |-> "None", validation_type |-> "none"]
    /\ results' = <<>>
    /\ front' = [op |-> name, arguments |-> arguments, isError |-> TRUE, content |-> <<text>>,
                 validated |-> <<>>]

\* a CallToolResult after the wrapper validated the texts of outputs
AdapterResult(name, arguments, outputs, context, validation_type, rs, content) ==
    /\ call' = [op |-> name, outputs |-> outputs, context |-> context,
                validation_type |-> validation_type]
    /\ results' = rs
    /\ front' = [op |-> name, arguments |-> arguments, isError |-> FALSE, content |-> content,
                 validated |-> outputs]

\* LithiumMCPServer._handle_validate_output
HandleValidateOutput ==
    \E arguments \in OutputArguments :
        LET output == Get(arguments, "output", <<>>)
            context == Get(arguments, "context", "None")
            validation_type == Get(arguments, "validation_type", "comprehensive")
            result == ValidatorValidate(output, context, validation_type)
        IN  /\ IF output = <<>>
               THEN AdapterError("validate_output", arguments, "Error: No output provided")
               ELSE AdapterResult("validate_output", arguments, <<output>>, context,
                                  validation_type, <<result>>,
                                  <<format_validation_result(result)>>)
            /\ UNCHANGED <<dicts, engines, validator, default_config, first, merged, probe,
                           subresult, threads>>

\* LithiumMCPServer._handle_quick_check
HandleQuickCheck ==
    \E arguments \in OutputArguments :
        LET output == Get(arguments, "output", <<>>)
            result == ValidatorValidate(output, "None", "quick")
        IN  /\ IF output = <<>>
               THEN AdapterError("quick_check", arguments, "Error: No output provided")
               ELSE AdapterResult("quick_check", arguments, <<output>>, "None", "quick",
                                  <<result>>,
                                  <<"Quick validation result",
                                    IF result.is_valid THEN "Valid" ELSE "Invalid">>)
            /\ UNCHANGED <<dicts, engines, validator, default_config, first, merged, probe,
                           subresult, threads>>

\* LithiumMCPServer._handle_get_confidence_score
HandleGetConfidenceScore ==
    \E arguments \in OutputArguments :
        LET output == Get(arguments, "output", <<>>)
            result == ValidatorValidate(output, "None", "quick")
            score == result.score
        IN  /\ IF output = <<>>
               THEN AdapterError("get_confidence_score", arguments, "Error: No output provided")
               ELSE AdapterResult("get_confidence_score", arguments, <<output>>, "None", "quick",
                                  <<result>>,
                                  <<"Confidence score", TwoDecimals(score),
                                    server_get_confidence_level(score)>>)
            /\ UNCHANGED <<dicts, engines, validator, default_config, first, merged, probe,
                           subresult, threads>>

\* LithiumMCPServer._handle_batch_validate: only the list as a whole is tested
HandleBatchValidate ==
    \E arguments \in BatchArguments :
        LET outputs == Get(arguments, "outputs", <<>>)
            validation_type == Get(arguments, "validation_type", "comprehensive")
            rs == BatchLoop(outputs, validation_type, 1, <<>>)
        IN  /\ IF outputs = <<>>
               THEN AdapterError("batch_validate", arguments, "Error: No outputs provided")
               ELSE AdapterResult("batch_validate", arguments, outputs, "None", validation_type,
                                  rs, [i \in 1..Len(rs) |-> format_batch_item(rs[i])])
            /\ UNCHANGED <<dicts, engines, validator, default_config, first, merged, probe,
                           subresult, threads>>

\* handle_call_tool with a name that is none of the four
HandleUnknownTool ==
    /\ AdapterError("unknown", EmptyDict, "Unknown tool")
    /\ UNCHANGED <<dicts, engines, validator, default_config, first, merged, probe,
                   subresult, threads>>

\* handle_call_tool
AdapterNext ==
    \/ HandleValidateOutput
    \/ HandleQuickCheck
    \/ HandleGetConfidenceScore
    \/ HandleBatchValidate
    \/ HandleUnknownTool

SpecAdapter == AdapterInit /\ [][AdapterNext]_vars

(***************************************************************************)
(* Construction with a configuration that may be invalid, then validate.   *)
(* A str given where a number is expected ("high" as the threshold) is     *)
(* written as the number STR below, which no valid option takes; Python    *)
(* orders no number against a str, so the comparison raises TypeError.     *)
(***************************************************************************)
STR == 0 - ONE

\* the two options validate compares with a number
NumericKeys == {K_THRESHOLD, K_MAXWARN}

\* the dict holds a str under a key whose value validate compares
NonNumeric(config) == \E k \in NumericKeys \cap DOMAIN config : config[k] = STR

\* validate on a config that may hold a str: score >= threshold (line 147)
\* and len(warnings) > max_warnings (line 151) are evaluated on every call
\* and raise TypeError on a str; the detectors have run by then
validate_or_raise(config, output, context, validation_type) ==
    IF NonNumeric(config)
    THEN [exception |-> "TypeError"]
    ELSE validate(config, output, context, validation_type)

\* the dicts a caller may pass, valid and invalid
GivenConfigs ==
    {<<>>, <<EmptyDict>>}
        \cup {<<(K_THRESHOLD :> t)>> : t \in {Tenths(9), STR}}
        \cup {<<(K_MAXWARN :> m)>> : m \in {0, STR}}
        \cup {<<(K_THRESHOLD :> STR) @@ (K_MAXWARN :> STR)>>}

\* the caller holds a config and a text; nothing is constructed yet
GivenInit ==
    \E config \in GivenConfigs, text \in ModeTexts :
        /\ dicts = config
        /\ engines = <<>>
        /\ validator = 0
        /\ default_config = 0
        /\ call = [op |-> "none", outputs |-> <<text>>, context |-> "None",
                   validation_type |-> "comprehensive"]
        /\ results = <<>>
        /\ first = <<>>
        /\ merged = EmptyDict
        /\ probe = NoProbe
        /\ Idle

\* OutputValidator(config): stores the dict and loads the rules; no value of
\* the dict is looked at
NewOutputValidator ==
    /\ call.op = "none"
    /\ dicts' = HeapAfterInit(dicts, Len(dicts))
    /\ engines' = <<NewEngine(dicts, Len(dicts))>>
    /\ validator' = 1
    /\ call' = [call EXCEPT !.op = "OutputValidator"]
    /\ UNCHANGED <<default_config, results, first, merged, probe, subresult, threads, front>>

\* ValidationInterface(config): the same, and the dict of defaults
NewValidationInterface ==
    /\ call.op = "none"
    /\ dicts' = Append(HeapAfterInit(dicts, Len(dicts)), DefaultConfig)
    /\ engines' = <<NewEngine(dicts, Len(dicts))>>
    /\ validator' = 1
    /\ default_config' = Len(HeapAfterInit(dicts, Len(dicts))) + 1
    /\ call' = [call EXCEPT !.op = "ValidationInterface"]
    /\ UNCHANGED <<results, first, merged, probe, subresult, threads, front>>

\* validate on the instance constructed
GivenValidate ==
    /\ call.op \in {"OutputValidator", "ValidationInterface"}
    /\ call' = [call EXCEPT !.op = "validate"]
    /\ results' = <<validate_or_raise(ConfigOf(engines[validator]), call.outputs[1],
                                      call.context, call.validation_type)>>
    /\ UNCHANGED <<dicts, engines, validator, default_config, first, merged, probe, subresult,
                   threads, front>>

GivenNext ==
    \/ NewOutputValidator
    \/ NewValidationInterface
    \/ GivenValidate

SpecGiven == GivenInit /\ [][GivenNext]_vars

(***************************************************************************)
(* Several threads calling validate on one shared OutputValidator.  A      *)
(* thread runs validate in five steps: the three locals are set (lines     *)
(* 109-111), then each of the three blocks, then the rest (lines 143-163). *)
(* Between two steps any other thread may run.  The locals of a call live  *)
(* in the frame of that call; self.config is shared.                       *)
(***************************************************************************)
MaxThreads == 2

ThreadTexts ==
    {<<"studies show">>, <<"always", "never", "[1]">>, <<"perhaps", ".", "however">>}

ThreadConfigs == {<<>>, <<Restrict(Strict, {K_MAXWARN})>>, <<Restrict(Strict, {K_LOGICAL})>>}

NoLocals == [score |-> 0, warnings |-> <<>>, details |-> EmptyDict]

\* the frame that holds the locals of the call of thread t: its own; before
\* it, one frame for all calls, as if the locals were attributes of self
SharedFrame(t) == 1
Frame(t) == t

ThreadInit ==
    \E config \in ThreadConfigs, n \in 1..MaxThreads :
        \E outputs \in [1..n -> ThreadTexts] :
            /\ dicts = HeapAfterInit(config, Len(config))
            /\ engines = <<NewEngine(config, Len(config))>>
            /\ validator = 1
            /\ default_config = 0
            /\ call = [op |-> "OutputValidator", outputs |-> <<>>, context |-> "None",
                       validation_type |-> "comprehensive"]
            /\ results = <<>>
            /\ first = <<>>
            /\ merged = EmptyDict
            /\ probe = NoProbe
            /\ subresult = <<>>
            /\ front = NoFront
            /\ threads = [t \in 1..n |->
                             [pc |-> "call", output |-> outputs[t], locals |-> NoLocals,
                              result |-> <<>>, overlapped |-> FALSE]]

\* thread t takes a step that leaves it at pc: every other call in progress
\* has now been overlapped by it
Stepped(t, pc, frames) ==
    [u \in 1..Len(threads) |->
        IF u = t THEN [frames[u] EXCEPT !.pc = pc]
        ELSE [frames[u] EXCEPT !.overlapped = @ \/ frames[u].pc \notin {"call", "done"}]]

\* lines 109-111: warnings = [], details = {}, score = 0.0
ThreadEnter(t) ==
    /\ threads[t].pc = "call"
    /\ threads' = Stepped(t, "factual", [threads EXCEPT ![Frame(t)].locals = NoLocals])

\* lines 114-141: one of the three blocks, on self.config as it is now
ThreadBlock(t) ==
    LET config == ConfigOf(engines[validator])
        output == threads[t].output
        acc == threads[Frame(t)].locals
        after ==
            CASE threads[t].pc = "factual" ->
                    Block(acc, Get(config, K_FACTUAL, TRUE), validate_factual_claims(output),
                          W_FACTUAL, "factual_validation")
              [] threads[t].pc = "logical" ->
                    Block(acc, Get(config, K_LOGICAL, TRUE), validate_logical_consistency(output),
                          W_LOGICAL, "logical_consistency")
              [] threads[t].pc = "source" ->
                    Block(acc, Get(config, K_SOURCE, TRUE), validate_source_attribution(output),
                          W_SOURCE, "source_attribution")
        pc == CASE threads[t].pc = "factual" -> "logical"
                [] threads[t].pc = "logical" -> "source"
                [] threads[t].pc = "source" -> "return"
    IN  /\ threads[t].pc \in {"factual", "logical", "source"}
        /\ threads' = Stepped(t, pc, [threads EXCEPT ![Frame(t)].locals = after])

\* lines 143-163: tier, is_valid, the limit on warnings, the result
ThreadReturn(t) ==
    LET config == ConfigOf(engines[validator])
        acc == threads[Frame(t)].locals
        result == [is_valid |-> IsValid(acc.score, config),
                   confidence |-> determine_confidence(acc.score),
                   score |-> acc.score,
                   details |-> acc.details,
                   warnings |-> LimitWarnings(acc.warnings, Get(config, K_MAXWARN, 10)),
                   validation_type |-> "comprehensive"]
    IN  /\ threads[t].pc = "return"
        /\ threads' = Stepped(t, "done", [threads EXCEPT ![t].result = <<result>>])

ThreadNext ==
    /\ \E t \in 1..Len(threads) :
          \/ ThreadEnter(t)
          \/ ThreadBlock(t)
          \/ ThreadReturn(t)
    /\ UNCHANGED <<dicts, engines, validator, default_config, call, results, first, merged,
                   probe, subresult, front>>

SpecThreads == ThreadInit /\ [][ThreadNext]_vars

(***************************************************************************)
(* The three detectors called on their own, on one text.                   *)
(***************************************************************************)
\* texts with every factual pattern and up to four hedges, with every
\* contradiction word, a full stop and two transition words, and with every
\* kind of citation and bracket; each is tried with all its subsequences
FactualText ==
    <<"studies show", "perhaps", "data suggests", "perhaps", "possibly", "might be",
      "statistics show", "According to", "sky", ",", "research indicates">>
LogicalText == AllContradictions \o <<".", "however", "therefore">>
SourceText ==
    <<"source:", "[?]", "[]", "[12]", "[smith 2020]", "(2020)", "[1]", "according to",
      "(1999)", "reference:">>

DetectTexts ==
    Subsequences(FactualText)
        \cup Subsequences(LogicalText)
        \cup Subsequences(SourceText)
        \cup Subsequences(ManyCitations)
        \cup {<<"always", "Never">>, <<"always", "nevertheless">>, <<"However", "!">>}

DetectInit == \E text \in DetectTexts : Construct(<<>>, text, "None", "none")

\* self._validate_factual_claims(output)
DetectFactual ==
    LET r == validate_factual_claims(call.outputs[1])
    IN  /\ subresult' = <<[detector |-> "factual", score |-> r.score, warnings |-> r.warnings]>>
        /\ UNCHANGED <<dicts, engines, validator, default_config, call, results, first, merged,
                       probe, threads, front>>

\* self._validate_logical_consistency(output)
DetectLogical ==
    LET r == validate_logical_consistency(call.outputs[1])
    IN  /\ subresult' = <<[detector |-> "logical", score |-> r.score, warnings |-> r.warnings]>>
        /\ UNCHANGED <<dicts, engines, validator, default_config, call, results, first, merged,
                       probe, threads, front>>

\* self._validate_source_attribution(output)
DetectSource ==
    LET r == validate_source_attribution(call.outputs[1])
    IN  /\ subresult' = <<[detector |-> "source", score |-> r.score, warnings |-> r.warnings]>>
        /\ UNCHANGED <<dicts, engines, validator, default_config, call, results, first, merged,
                       probe, threads, front>>

DetectNext ==
    \/ DetectFactual
    \/ DetectLogical
    \/ DetectSource

SpecDetect == DetectInit /\ [][DetectNext]_vars

(***************************************************************************)
(* The engine with every choice of enabled detectors, on texts that draw   *)
(* warnings from each of them.                                             *)
(***************************************************************************)
OrderTexts ==
    Subsequences(<<"studies show", "data suggests", "always", "never", "all", "none", "[1]",
                   "[]", "sky">>)

\* dicts that set the three flags and max_warnings: a small limit, and the default one
OrderConfigs ==
    {<<(K_FACTUAL :> f) @@ (K_LOGICAL :> l) @@ (K_SOURCE :> s) @@ (K_MAXWARN :> m)>> :
        f \in BOOLEAN, l \in BOOLEAN, s \in BOOLEAN, m \in {2, 10}}

OrderInit ==
    \E config \in OrderConfigs, text \in OrderTexts :
        Construct(config, text, "None", "comprehensive")

SpecOrder == OrderInit /\ [][EngineValidate]_vars

(***************************************************************************)
(* The three score-to-tier mappings side by side, and the adapter's        *)
(* get_confidence_score tool, which shows the server's own mapping of the  *)
(* score the engine computed.                                              *)
(***************************************************************************)
\* get_confidence_level of validation_interface.py
get_confidence_level(score) ==
    IF score >= Tenths(9) THEN "HIGH"
    ELSE IF score >= Tenths(7) THEN "MEDIUM"
    ELSE IF score >= Tenths(5) THEN "LOW"
    ELSE "INSUFFICIENT"

\* tenths from -0.1 to 1.1, and the neighbours of the three thresholds
LevelScores ==
    {Tenths(n) : n \in -1..11} \cup {Tenths(b) + d : b \in {5, 7, 9}, d \in {-1, 1}}

\* the three mappings applied to one score
ClassifyThrice ==
    \E score \in LevelScores :
        /\ probe' = [score |-> score,
                     engine |-> determine_confidence(score),
                     wrapper |-> get_confidence_level(score),
                     server |-> server_get_confidence_level(score)]
        /\ UNCHANGED <<dicts, engines, validator, default_config, call, results, first, merged,
                       subresult, threads, front>>

LevelsNext ==
    \/ ClassifyThrice
    \/ HandleGetConfidenceScore

SpecLevels == AdapterInit /\ [][LevelsNext]_vars

(***************************************************************************)
(* The engine under its default configuration, on texts built from the     *)
(* parts that draw warnings: each factual pattern, each contradiction      *)
(* pair, and brackets short and long.                                      *)
(***************************************************************************)
\* the parts, cut down to any choice of them
WarnTexts ==
    LET base ==
            <<"According to", "sky", ",", "studies show", "research indicates",
              "data suggests", "statistics show", "always", "never", "all", "none",
              "every", "no", "completely", "partially", "[1]", "[]", "[?]",
              "[smith 2020]">>
        \* the positions of each part in base
        units ==
            {{1, 2, 3}, {4}, {5}, {6}, {7}, {8, 9}, {10, 11}, {12, 13}, {14, 15},
             {16}, {17}, {18}, {19}}
    IN  {Pick(base, UNION us, 1) : us \in SUBSET units}

\* OutputValidator() and OutputValidator({}): both work on the defaults
WarnInit ==
    \E config \in {<<>>, <<EmptyDict>>}, text \in WarnTexts :
        Construct(config, text, "None", "comprehensive")

SpecWarn == WarnInit /\ [][EngineValidate]_vars

(***************************************************************************)
(* Properties.                                                             *)
(***************************************************************************)
\* the engine in use, its options, and the text and result of the last call
TheConfig == Effective(ConfigOf(engines[validator]))
TheText == call.outputs[1]
TheResult == results[1]
Called == results # <<>>

\* what each detector returns on the text, whether or not it is enabled
Factual == validate_factual_claims(TheText)
Logical == validate_logical_consistency(TheText)
Source == validate_source_attribution(TheText)

\* the warnings of the enabled detectors, before any truncation
Untruncated ==
    (IF TheConfig[K_FACTUAL] THEN Factual.warnings ELSE <<>>)
        \o (IF TheConfig[K_LOGICAL] THEN Logical.warnings ELSE <<>>)
        \o (IF TheConfig[K_SOURCE] THEN Source.warnings ELSE <<>>)

\* C1: the score of a result is 0.4 x factual + 0.3 x logical + 0.3 x source
\* over the enabled detectors (a disabled one counts 0, the three weights sum
\* to 1.0), and is_valid holds exactly when the score reaches the threshold.
C1_WeightedSum ==
    Called =>
        /\ TheResult.score * ONE =
              (IF TheConfig[K_FACTUAL] THEN Tenths(4) * Factual.score ELSE 0)
            + (IF TheConfig[K_LOGICAL] THEN Tenths(3) * Logical.score ELSE 0)
            + (IF TheConfig[K_SOURCE] THEN Tenths(3) * Source.score ELSE 0)
        /\ Tenths(4) + Tenths(3) + Tenths(3) = ONE
        /\ TheResult.is_valid <=> TheResult.score >= TheConfig[K_THRESHOLD]

\* a call with a detector disabled whose score is exactly the threshold
C1_Witness ==
    /\ Called
    /\ ~TheConfig[K_SOURCE]
    /\ TheResult.score = TheConfig[K_THRESHOLD]
    /\ TheResult.is_valid

\* C2: every sub-score a detector returns lies in [0.0, 1.0].
C2_SubScoreBounded ==
    Called =>
        \A k \in DOMAIN TheResult.details :
            /\ TheResult.details[k].score >= 0
            /\ TheResult.details[k].score <= ONE

\* four contradictions (1.0 - 1.2 before the clamp) beside a hedge with no
\* factual claim (1.0 + 0.1 before the clamp)
C2_Witness ==
    /\ Called
    /\ DOMAIN TheResult.details = {"factual_validation", "logical_consistency", "source_attribution"}
    /\ TheResult.details["logical_consistency"] = [score |-> 0, warnings |-> 4]
    /\ \E t \in EngineTexts :
          /\ UncertaintyCount(t, 1) > 0
          /\ FactualLoop(t, 1, [score |-> ONE, warnings |-> <<>>]).score = ONE
          /\ validate_factual_claims(t).score = ONE

\* the order of the tiers
Rank(tier) ==
    CASE tier = "insufficient" -> 0
      [] tier = "low" -> 1
      [] tier = "medium" -> 2
      [] tier = "high" -> 3

\* C3: the tier is HIGH iff s >= 0.9, MEDIUM iff 0.7 <= s < 0.9, LOW iff
\* 0.5 <= s < 0.7, INSUFFICIENT iff s < 0.5, and a higher score never gets a
\* lower tier.
C3_TierStepFunction ==
    probe.tier_lo # "none" =>
        /\ \A p \in {<<probe.lo, probe.tier_lo>>, <<probe.hi, probe.tier_hi>>} :
              /\ p[2] = "high" <=> p[1] >= Tenths(9)
              /\ p[2] = "medium" <=> (Tenths(7) <= p[1] /\ p[1] < Tenths(9))
              /\ p[2] = "low" <=> (Tenths(5) <= p[1] /\ p[1] < Tenths(7))
              /\ p[2] = "insufficient" <=> p[1] < Tenths(5)
        /\ Rank(probe.tier_lo) <= Rank(probe.tier_hi)

\* the scores 0.7 and 0.9, each on the lower bound of its band
C3_Witness ==
    /\ probe.lo = Tenths(7)
    /\ probe.tier_lo = "medium"
    /\ probe.hi = Tenths(9)
    /\ probe.tier_hi = "high"

SUMMARY == "... and more warnings"

\* C5: with max_warnings = k and w > k warnings, the result holds k + 1
\* entries, the first k of the untruncated list and then the summary entry;
\* with w <= k it holds the untruncated list.
C5_Truncation ==
    Called =>
        LET k == TheConfig[K_MAXWARN]
            w == Len(Untruncated)
        IN  IF w > k
            THEN /\ Len(TheResult.warnings) = k + 1
                 /\ SubSeq(TheResult.warnings, 1, k) = SubSeq(Untruncated, 1, k)
                 /\ TheResult.warnings[k + 1][1] = SUMMARY
            ELSE /\ TheResult.warnings = Untruncated
                 /\ \A i \in 1..w : TheResult.warnings[i][1] # SUMMARY

\* three warnings of two detectors cut to one
C5_Witness ==
    /\ Called
    /\ TheConfig[K_MAXWARN] = 1
    /\ Len(Untruncated) = 3
    /\ Untruncated[1] # Untruncated[3]
    /\ Len(TheResult.warnings) = 2

\* C6: the number in the summary entry is the count of omitted warnings, w - k.
C6_SummaryCountsOmitted ==
    Called =>
        LET k == TheConfig[K_MAXWARN]
            w == Len(Untruncated)
        IN  w > k =>
                TheResult.warnings[Len(TheResult.warnings)] = <<SUMMARY, w - k>>

\* C7: the engine in use works with the defaults overridden by the
\* construction config and then by every configure call, in call order.
C7_MergedConfiguration == TheConfig = merged

\* C8: every engine instance built so far still has the option values it was
\* constructed with.
C8_InstanceConfigFixed ==
    \A i \in 1..Len(engines) : dicts[engines[i].config] = engines[i].made

\* C9: the aggregate score lies in [0.0, 1.0].
C9_ScoreBounded == Called => (TheResult.score >= 0 /\ TheResult.score <= ONE)

\* all three detectors at 1.0, the factual one only through its clamp
C9_Witness ==
    /\ Called
    /\ TheResult.score = ONE
    /\ UncertaintyCount(TheText, 1) > 0

\* the configs that enable a subset of the detectors c enables, all else equal
Disabling(c) ==
    {[c EXCEPT ![K_FACTUAL] = f, ![K_LOGICAL] = l, ![K_SOURCE] = s] :
        f \in {FALSE, c[K_FACTUAL]}, l \in {FALSE, c[K_LOGICAL]}, s \in {FALSE, c[K_SOURCE]}}

\* C10: a configuration that enables a subset of the detectors gives the same
\* text a score no higher, so an invalid text stays invalid.
C10_DisablingNeverRaises ==
    Called =>
        \A c \in Disabling(TheConfig) :
            LET r == validate(c, TheText, call.context, call.validation_type)
            IN  /\ r.score <= TheResult.score
                /\ ~TheResult.is_valid => ~r.is_valid

\* an invalid text, all detectors enabled, whose logical sub-score is at the
\* floor of the clamp
C10_Witness ==
    /\ Called
    /\ TheConfig[K_FACTUAL] /\ TheConfig[K_LOGICAL] /\ TheConfig[K_SOURCE]
    /\ ~TheResult.is_valid
    /\ Len(Logical.warnings) = 4
    /\ Logical.score = 0


\* C11: batch_validate returns one result per text, in input order, and the
\* i-th result is the result of validating the i-th text alone with the same
\* mode and configuration.
C11_BatchIndependent ==
    call.op = "batch_validate" =>
        /\ Len(results) = Len(call.outputs)
        /\ \A i \in 1..Len(call.outputs) :
              results[i] = validate(ConfigOf(engines[validator]), call.outputs[i],
                                    "None", call.validation_type)

\* a batch of two different texts, each with a warning the other has not
C11_Witness ==
    /\ call.op = "batch_validate"
    /\ Len(call.outputs) = 2
    /\ Len(results) = 2
    /\ results[1].warnings # <<>>
    /\ results[2].warnings # <<>>
    /\ \A i \in 1..Len(results[1].warnings) :
          \A j \in 1..Len(results[2].warnings) :
              results[1].warnings[i] # results[2].warnings[j]

\* a text that matches no factual pattern, holds no complete contradiction
\* pair and matches no citation pattern
Plain(text) ==
    /\ \A n \in 1..Len(factual_patterns) : FindAll(factual_patterns[n], text) = <<>>
    /\ \A n \in 1..Len(contradictions) :
          ~(SearchWord(contradictions[n][1], text) /\ SearchWord(contradictions[n][2], text))
    /\ \A n \in 1..Len(citation_patterns) : ~Search(citation_patterns[n], text)

\* C12: under the default configuration a text that matches no factual
\* pattern, no complete contradiction pair and no citation pattern gets the
\* missing-citation warning alone, sub-scores 1.0, 1.0 and 0.6, the score
\* 0.88, the tier MEDIUM and is_valid true.
C12_PlainText ==
    (Called /\ ConfigOf(engines[validator]) = DefaultConfig /\ Plain(TheText)) =>
        /\ TheResult.warnings = <<NO_CITATIONS>>
        /\ TheResult.details =
              [k \in {"factual_validation", "logical_consistency", "source_attribution"} |->
                  IF k = "source_attribution"
                  THEN [score |-> ONE - Tenths(4), warnings |-> 1]
                  ELSE [score |-> ONE, warnings |-> 0]]
        /\ TheResult.score = 88 * (ONE \div 100)
        /\ TheResult.confidence = "medium"
        /\ TheResult.is_valid

\* a quick call on such a text that holds a hedge, a transition after a full
\* stop, one word of a pair and a bracket that is no citation
C12_Witness ==
    /\ Called
    /\ ConfigOf(engines[validator]) = DefaultConfig
    /\ Plain(TheText)
    /\ call.validation_type = "quick"
    /\ UncertaintyCount(TheText, 1) > 0
    /\ SeveralSentences(TheText) /\ has_transitions(TheText)
    /\ SearchWord("all", TheText)
    /\ incomplete_citations(TheText) # <<>>
    /\ TheResult.is_valid

\* the number of bracketed spans shorter than 5 characters
ShortBrackets(text) == Cardinality({i \in 1..Len(text) : text[i] \in BracketSpans /\ CharLen(text[i]) < 5})

\* membership in a list
InList(x, list) == \E i \in 1..Len(list) : list[i] = x

\* C13: a text with a match of 'according to <...>,' passes the has-citation
\* test, so its result never holds the missing-citation warning and its
\* source sub-score is 1.0 less 0.1 per short bracket, without the 0.4; a
\* text with 'always' and without 'never' gets no warning for that pair.
C13_AccordingToIsCitation ==
    Called =>
        /\ FindAll(P_ACCORDING, TheText) # <<>> =>
              /\ has_citations(TheText)
              /\ ~InList(NO_CITATIONS, TheResult.warnings)
              /\ "source_attribution" \in DOMAIN TheResult.details =>
                    TheResult.details["source_attribution"].score =
                        Max(0, ONE - Tenths(1) * ShortBrackets(TheText))
        /\ (SearchWord("always", TheText) /\ ~SearchWord("never", TheText)) =>
              ~InList(<<"Potential contradiction detected", "always", "never">>, TheResult.warnings)

\* the factual warning for the phrase, in a text whose only citation is the
\* phrase itself and which holds 'always' alone
C13_Witness ==
    /\ Called
    /\ InList(<<"Unsupported factual claim detected", <<"According to", "sky", ",">>>>,
              TheResult.warnings)
    /\ ~Search(P_BRACKET, TheText) /\ ~Search(P_YEAR, TheText)
    /\ TheResult.details["source_attribution"].score = ONE
    /\ SearchWord("always", TheText) /\ ~SearchWord("never", TheText)

\* C14: in each output mode a run of the command-line front end exits with 0
\* when the result is valid and with 1 when it is invalid or when the input
\* could not be had (missing file, unreadable file, empty text).
C14_ExitCode ==
    (front.op = "cli" /\ front.pc = "exited") =>
        front.exit = IF results # <<>> /\ results[1].is_valid THEN 0 ELSE 1

\* the call carries no text, or an empty one: the output of a single-text
\* tool, the list of batch_validate or one of its elements
MissingInput ==
    IF front.op = "batch_validate"
    THEN LET outputs == Get(front.arguments, "outputs", <<>>)
         IN  outputs = <<>> \/ \E i \in 1..Len(outputs) : outputs[i] = <<>>
    ELSE Get(front.arguments, "output", <<>>) = <<>>

\* C15: a tool call of the adapter whose text is missing or empty, an empty
\* element of the outputs list included, gets an error response, and the
\* engine validates no empty text.
C15_EmptyNeverValidated ==
    front.op \in AdapterTools =>
        /\ MissingInput => front.isError
        /\ \A i \in 1..Len(front.validated) : front.validated[i] # <<>>

\* C16: a configuration with a non-numeric value is rejected at construction:
\* no engine instance exists on such a configuration, and no validate call
\* ends in a configuration error.
C16_RejectedAtConstruction ==
    /\ \A i \in 1..Len(engines) : ~NonNumeric(dicts[engines[i].config])
    /\ \A i \in 1..Len(results) : "exception" \notin DOMAIN results[i]

\* C17: with several validate calls in progress on one shared instance, in
\* any interleaving of their steps, the configuration stays as constructed
\* and every call returns what validate returns on its text alone.
C17_ConcurrentCallsSafe ==
    threads # <<>> =>
        /\ dicts[engines[validator].config] = engines[validator].made
        /\ \A t \in 1..Len(threads) :
              threads[t].pc = "done" =>
                  threads[t].result =
                      <<validate(ConfigOf(engines[validator]), threads[t].output, "None",
                                 "comprehensive")>>

\* two calls on different texts, each overlapped by steps of the other, both
\* returned with warnings
C17_Witness ==
    /\ Len(threads) >= 2
    /\ threads[1].pc = "done" /\ threads[2].pc = "done"
    /\ threads[1].overlapped /\ threads[2].overlapped
    /\ threads[1].output # threads[2].output
    /\ threads[1].result[1].warnings # <<>>
    /\ threads[2].result[1].warnings # <<>>

\* the detector whose return value subresult holds
Detected(detector) == subresult # <<>> /\ subresult[1].detector = detector

\* factual pattern n matches somewhere in the text
FactualMatch(n, text) ==
    \E i \in 1..Len(text) :
        IF factual_patterns[n] = P_ACCORDING
        THEN AccordingAt(text, i)
        ELSE Lower(text[i]) = factual_patterns[n]

\* the factual pattern whose match a warning quotes
PatternQuoted(warning) ==
    CHOOSE n \in 1..Len(factual_patterns) :
        IF Lower(warning[2][1]) = "according to"
        THEN factual_patterns[n] = P_ACCORDING
        ELSE factual_patterns[n] = Lower(warning[2][1])

\* C18: with m of the five factual patterns matching and u matches of the
\* uncertainty patterns in total, the factual detector returns the sub-score
\* clamp(1.0 - 0.2 m + min(0.1 u, 0.3)) and m warnings, one per matching
\* pattern, in catalog order.
C18_FactualDetector ==
    Detected("factual") =>
        LET matched == {n \in 1..Len(factual_patterns) : FactualMatch(n, TheText)}
            m == Cardinality(matched)
            u == Cardinality({<<i, n>> \in (1..Len(TheText)) \X (1..Len(uncertainty_indicators)) :
                                 Lower(TheText[i]) = uncertainty_indicators[n]})
            hedge == IF Tenths(1) * u < Tenths(3) THEN Tenths(1) * u ELSE Tenths(3)
            raw == ONE - Tenths(2) * m + hedge
            r == subresult[1]
        IN  /\ r.score = (IF raw < 0 THEN 0 ELSE IF raw > ONE THEN ONE ELSE raw)
            /\ Len(r.warnings) = m
            /\ \A j \in 1..m :
                  /\ r.warnings[j][1] = "Unsupported factual claim detected"
                  /\ PatternQuoted(r.warnings[j]) \in matched
            /\ \A j \in 1..m : \A k \in 1..m :
                  j < k => PatternQuoted(r.warnings[j]) < PatternQuoted(r.warnings[k])

\* two patterns and four hedges: 1.0 - 0.4 + 0.3, the cap at work and no clamp
C18_Witness ==
    /\ Detected("factual")
    /\ Len(subresult[1].warnings) = 2
    /\ UncertaintyCount(TheText, 1) = 4
    /\ subresult[1].score = Tenths(9)

\* C19: with c of the four pairs having both words present, the logical
\* detector returns the sub-score clamp(1.0 - 0.3 c + b) and c warnings, one
\* per such pair in the order of the list; b is 0.1 when the text holds
\* sentence-terminal punctuation and at least one transition word, however
\* many, and 0 otherwise.
C19_LogicalDetector ==
    Detected("logical") =>
        LET Present(w) == \E i \in 1..Len(TheText) : Lower(TheText[i]) = w
            both == {n \in 1..Len(contradictions) :
                        Present(contradictions[n][1]) /\ Present(contradictions[n][2])}
            c == Cardinality(both)
            split == \E i \in 1..Len(TheText) : TheText[i] \in {".", "!", "?", "[?]"}
            b == IF split /\ (\E w \in transition_words : Present(w)) THEN Tenths(1) ELSE 0
            raw == ONE - Tenths(3) * c + b
            r == subresult[1]
            PairOf(warning) ==
                CHOOSE n \in 1..Len(contradictions) :
                    contradictions[n] = <<warning[2], warning[3]>>
        IN  /\ r.score = (IF raw < 0 THEN 0 ELSE IF raw > ONE THEN ONE ELSE raw)
            /\ Len(r.warnings) = c
            /\ \A j \in 1..c :
                  /\ r.warnings[j][1] = "Potential contradiction detected"
                  /\ PairOf(r.warnings[j]) \in both
            /\ \A j \in 1..c : \A k \in 1..c :
                  j < k => PairOf(r.warnings[j]) < PairOf(r.warnings[k])

\* two pairs, a full stop and two transition words: 1.0 - 0.6 + 0.1
C19_Witness ==
    /\ Detected("logical")
    /\ Len(subresult[1].warnings) = 2
    /\ SearchWord("however", TheText) /\ SearchWord("therefore", TheText)
    /\ subresult[1].score = Tenths(5)

\* C20: when no citation pattern matches, the source detector returns 0.6
\* and the missing-citation warning alone; when one matches, it returns
\* max(0, 1.0 - 0.1 n) and n incomplete-citation warnings, n the number of
\* bracketed spans shorter than 5 characters, whichever pattern matched.
\* The two kinds of warning never occur together.
C20_SourceDetector ==
    Detected("source") =>
        LET cited == \E n \in 1..Len(citation_patterns) : Search(citation_patterns[n], TheText)
            n == ShortBrackets(TheText)
            r == subresult[1]
        IN  /\ ~cited => (r.score = Tenths(6) /\ r.warnings = <<NO_CITATIONS>>)
            /\ cited =>
                  /\ r.score = (IF ONE - Tenths(1) * n < 0 THEN 0 ELSE ONE - Tenths(1) * n)
                  /\ Len(r.warnings) = n
                  /\ \A j \in 1..n :
                        /\ r.warnings[j][1] = "Incomplete citation"
                        /\ CharLen(r.warnings[j][2]) < 5
            /\ ~(InList(NO_CITATIONS, r.warnings)
                    /\ \E j \in 1..Len(r.warnings) : r.warnings[j][1] = "Incomplete citation")

\* 'source:' the only citation pattern that matches, beside two brackets that
\* are no citations: two incomplete-citation warnings
C20_Witness ==
    /\ Detected("source")
    /\ Search("source:", TheText)
    /\ \A n \in 1..Len(citation_patterns) :
          citation_patterns[n] # "source:" => ~Search(citation_patterns[n], TheText)
    /\ Len(subresult[1].warnings) = 2
    /\ subresult[1].score = Tenths(8)

\* what details holds for the enabled detectors: the unweighted sub-score and
\* the number of warnings of each, a disabled detector having no entry
DetailsOfEnabled ==
    LET entry(det) == [score |-> det.score, warnings |-> Len(det.warnings)]
        enabled == {k \in {K_FACTUAL, K_LOGICAL, K_SOURCE} : TheConfig[k]}
        name(k) == CASE k = K_FACTUAL -> "factual_validation"
                     [] k = K_LOGICAL -> "logical_consistency"
                     [] k = K_SOURCE -> "source_attribution"
        of(n) == CASE n = "factual_validation" -> entry(Factual)
                   [] n = "logical_consistency" -> entry(Logical)
                   [] n = "source_attribution" -> entry(Source)
    IN  [n \in {name(k) : k \in enabled} |-> of(n)]

\* C21 as stated: in every result the warnings are the warnings of the enabled
\* detectors, factual then logical then source, each in its own order, and
\* details holds the sub-score and warning count of the enabled detectors only.
C21_Concatenation ==
    Called =>
        /\ TheResult.warnings = Untruncated
        /\ TheResult.details = DetailsOfEnabled

\* C21 as amended: the warnings are that concatenation when it has at most
\* max_warnings entries, and otherwise its first max_warnings entries followed
\* by one summary entry; details holds, for the enabled detectors only, the
\* unweighted sub-score and the warning count before truncation.
C21_ConcatenationThenLimit ==
    Called =>
        LET k == TheConfig[K_MAXWARN]
        IN  /\ Len(Untruncated) <= k => TheResult.warnings = Untruncated
            /\ Len(Untruncated) > k =>
                  /\ Len(TheResult.warnings) = k + 1
                  /\ \A i \in 1..k : TheResult.warnings[i] = Untruncated[i]
                  /\ TheResult.warnings[k + 1][1] = SUMMARY
            /\ TheResult.details = DetailsOfEnabled

\* the logical detector disabled on a text with a contradiction, two factual
\* warnings before two source warnings, all kept
C21_Witness ==
    /\ Called
    /\ ~TheConfig[K_LOGICAL]
    /\ Logical.warnings # <<>>
    /\ Len(Factual.warnings) = 2
    /\ Len(Source.warnings) = 2
    /\ TheResult.warnings = Factual.warnings \o Source.warnings
    /\ DOMAIN TheResult.details = {"factual_validation", "source_attribution"}

\* C22: on every score the upper-cased tier of the engine's mapping, the tier
\* of the wrapper module's mapping and the tier of the server's mapping are
\* the same, and the tier the adapter's get_confidence_score shows is the
\* tier the engine put in the result.
C22_TierMappingsAgree ==
    /\ probe # NoProbe =>
          /\ Upper(probe.engine) = probe.wrapper
          /\ probe.wrapper = probe.server
    /\ (front.op = "get_confidence_score" /\ ~front.isError) =>
          front.content[3] = Upper(results[1].confidence)

\* the three mappings on the threshold 0.9, beside a get_confidence_score
\* response that shows a score and its tier
C22_Witness ==
    /\ probe # NoProbe
    /\ probe.score = Tenths(9)
    /\ probe.server = "HIGH"
    /\ front.op = "get_confidence_score"
    /\ ~front.isError
    /\ front.content = <<"Confidence score", 80, "MEDIUM">>

\* the result holds a summary entry
Truncated == \E i \in 1..Len(TheResult.warnings) : TheResult.warnings[i][1] = SUMMARY

\* C23: under the default max_warnings = 10 the factual detector gives at most
\* 5 warnings, the logical one at most 4 and the source one at most 1 unless
\* it reports incomplete citations; a result is truncated only when the text
\* holds at least two bracketed spans shorter than 5 characters, and every
\* other text gets all its warnings, at most 10, and no summary entry.
C23_DefaultLimit ==
    (Called /\ ConfigOf(engines[validator]) = DefaultConfig) =>
        /\ Len(Factual.warnings) <= 5
        /\ Len(Logical.warnings) <= 4
        /\ (\A i \in 1..Len(Source.warnings) : Source.warnings[i][1] # "Incomplete citation") =>
              Len(Source.warnings) <= 1
        /\ Truncated => ShortBrackets(TheText) >= 2
        /\ ShortBrackets(TheText) < 2 =>
              /\ TheResult.warnings = Factual.warnings \o Logical.warnings \o Source.warnings
              /\ Len(TheResult.warnings) <= 10
              /\ ~Truncated

\* five factual warnings, four contradictions and one short bracket: ten
\* warnings, all returned
C23_Witness ==
    /\ Called
    /\ ConfigOf(engines[validator]) = DefaultConfig
    /\ Len(Factual.warnings) = 5
    /\ Len(Logical.warnings) = 4
    /\ ShortBrackets(TheText) = 1
    /\ Len(TheResult.warnings) = 10
    /\ ~Truncated
====
